---- MODULE Spec2Model ----
(***************************************************************************)
(* A model of NBA_Team_Efficiency.py: the cached fetcher (stale, save,     *)
(* download_data), the table parsers and record mergers (parse_bbref_row,  *)
(* parse_player_stats, parse_raptor_stats, parse_team_stats) and the batch *)
(* driver (process_data, main).                                            *)
(*                                                                         *)
(* Python strings that the program inspects (cell text, team codes, years) *)
(* are sequences of one-character strings, so that int(), rstrip() and the *)
(* comparisons of the code are computed and not assumed.                   *)
(***************************************************************************)
EXTENDS Integers, Sequences, FiniteSets, TLC

VARIABLES
    net,            \* the responses the remote servers may give in this run
    fs,             \* the cache directory: file -> [age, text], age -1 when absent
    res,            \* save: the last response received
    retries,        \* save: local `retries`
    sleeps,         \* save: local `sleeps`
    got,            \* save: every response received by the current call, in order
    target,         \* save: the (url, fname) pair of the current call
    queue,          \* the files the caller still has to save, in order
    after,          \* where the caller continues once `queue` is empty
    fetched,        \* every file save was called for in this run, in order
    fs0,            \* the cache directory as the run found it
    args,           \* the parsed command line
    years,          \* main: local `years`
    yi,             \* index into `years` of the loop that is running
    site_players,   \* year -> page -> the player rows that page holds
    site_teams,     \* year -> the two tables of the league page
    site_raptor,    \* rating file -> its rows
    player_data,    \* process_data: local `player_data`
    rpos,           \* parse_raptor_stats: the file and row being read
    team_list_of_dicts, \* process_data: local `team_list_of_dicts`
    logs,           \* the warnings printed by log
    output,         \* nba_team_efficiency.csv: its rows, or NotWritten
    pc,             \* position of the run
    error           \* the exception that ended the run, or NoError

saveVars == << res, retries, sleeps, got, target >>
fetchVars == << queue, after, fetched >>
worldVars == << net, site_players, site_teams, site_raptor, fs0, args >>
dataVars == << player_data, rpos, team_list_of_dicts, logs, output >>
vars == << net, fs, res, retries, sleeps, got, target, queue, after, fetched,
           fs0, args, years, yi, site_players, site_teams, site_raptor,
           player_data, rpos, team_list_of_dicts, logs, output, pc, error >>

(***************************************************************************)
(* Strings                                                                 *)
(***************************************************************************)
Digits == << "0", "1", "2", "3", "4", "5", "6", "7", "8", "9" >>

IsDigit(c) == \E i \in 1..Len(Digits) : Digits[i] = c

DigitVal(c) == (CHOOSE i \in 1..Len(Digits) : Digits[i] = c) - 1

AllDigits(s) == \A i \in 1..Len(s) : IsDigit(s[i])

RECURSIVE NatOf(_)
NatOf(s) ==
    IF s = << >> THEN 0
    ELSE NatOf(SubSeq(s, 1, Len(s) - 1)) * 10 + DigitVal(s[Len(s)])

RECURSIVE Pow10(_)
Pow10(n) == IF n = 0 THEN 1 ELSE 10 * Pow10(n - 1)

\* str(n) for n >= 0
RECURSIVE str(_)
str(n) ==
    IF n < 10 THEN << Digits[n + 1] >>
    ELSE Append(str(n \div 10), Digits[(n % 10) + 1])

Negative(s) == Len(s) > 0 /\ s[1] = "-"

Unsigned(s) == IF Negative(s) THEN Tail(s) ELSE s

Signed(s, n) == IF Negative(s) THEN 0 - n ELSE n

\* int(s) succeeds; the model's alphabet has no blanks, "+" or "_"
IsIntLiteral(s) == Len(Unsigned(s)) > 0 /\ AllDigits(Unsigned(s))

DotAt(s) == CHOOSE i \in 1..Len(s) : s[i] = "."

\* float(s) succeeds; the alphabet has no exponent, "inf" or "nan" spellings
IsFloatLiteral(s) ==
    LET u == Unsigned(s) IN
    \/ IsIntLiteral(s)
    \/ /\ Cardinality({i \in 1..Len(u) : u[i] = "."}) = 1
       /\ Len(u) > 1
       /\ AllDigits(SubSeq(u, 1, DotAt(u) - 1))
       /\ AllDigits(SubSeq(u, DotAt(u) + 1, Len(u)))

\* the number of decimals kept by round(x, 4) on line 40
ROUND_DIGITS == 4

\* round(float(s), 4) in units of 10^-4; a tie goes to the even neighbour
Round4(s) ==
    LET u == Unsigned(s)
        whole == SubSeq(u, 1, DotAt(u) - 1)
        frac == SubSeq(u, DotAt(u) + 1, Len(u))
        n == NatOf(whole \o frac)
        d == Len(frac)
        cut == Pow10(d - ROUND_DIGITS)
        q == n \div cut
        r == n % cut
    IN  Signed(s, IF d <= ROUND_DIGITS THEN n * Pow10(ROUND_DIGITS - d)
                  ELSE IF 2 * r > cut \/ (2 * r = cut /\ q % 2 = 1) THEN q + 1
                  ELSE q)

\* str.rstrip("*") on line 146
RECURSIVE rstrip(_)
rstrip(s) ==
    IF s # << >> /\ s[Len(s)] = "*" THEN rstrip(SubSeq(s, 1, Len(s) - 1)) ELSE s

\* str.replace("-", "_") on lines 140, 163 and 194
replace(s) == [i \in 1..Len(s) |-> IF s[i] = "-" THEN "_" ELSE s[i]]

(***************************************************************************)
(* Cells and values.  A cell is what a <td> holds: `markup` says whether   *)
(* its children contain a tag, `href` is the code inside a teams/<code>/   *)
(* link of that markup (empty when there is none) and `txt` is the text    *)
(* BeautifulSoup(...).text recovers from it.  A value is what tryint       *)
(* returns: an int, a float in units of 10^-4 or the string itself.        *)
(***************************************************************************)
Cell(markup, href, txt) == [markup |-> markup, href |-> href, txt |-> txt]

Text(s) == Cell(FALSE, << >>, s)

Value(kind, num, cell) == [kind |-> kind, num |-> num, cell |-> cell]

StrValue(cell) == Value("str", 0, cell)

\* lines 31-42
tryint(mayben) ==
    IF mayben.markup THEN StrValue(mayben)
    ELSE IF IsIntLiteral(mayben.txt)
        THEN Value("int", Signed(mayben.txt, NatOf(Unsigned(mayben.txt))), Text(<< >>))
    ELSE IF IsFloatLiteral(mayben.txt)
        THEN Value("float", Round4(mayben.txt), Text(<< >>))
    ELSE StrValue(mayben)

\* F applied to the value of v, with v computed once
Bind(v, F(_)) == CHOOSE out \in {F(x) : x \in {v}} : TRUE

\* {**a, **b}
Merge(a, b) ==
    [k \in DOMAIN a \cup DOMAIN b |-> IF k \in DOMAIN b THEN b[k] ELSE a[k]]

(***************************************************************************)
(* Stat names, column names and codes, spelled as strings                  *)
(***************************************************************************)
F_player == << "p", "l", "a", "y", "e", "r" >>
F_team_id == << "t", "e", "a", "m", "_", "i", "d" >>
F_team == << "t", "e", "a", "m" >>
F_name == << "n", "a", "m", "e" >>
F_shortname == << "s", "h", "o", "r", "t", "n", "a", "m", "e" >>
F_bb_ref_id == << "b", "b", "_", "r", "e", "f", "_", "i", "d" >>
F_year == << "y", "e", "a", "r" >>
F_g == << "g" >>
F_mp == << "m", "p" >>
F_pts == << "p", "t", "s" >>
F_per == << "p", "e", "r" >>
F_off_rtg == << "o", "f", "f", "_", "r", "t", "g" >>
F_season_type == << "s", "e", "a", "s", "o", "n", "_", "t", "y", "p", "e" >>
F_player_id == << "p", "l", "a", "y", "e", "r", "_", "i", "d" >>
F_player_name == << "p", "l", "a", "y", "e", "r", "_", "n", "a", "m", "e" >>
F_season == << "s", "e", "a", "s", "o", "n" >>
F_raptor_total == << "r", "a", "p", "t", "o", "r", "_", "t", "o", "t", "a", "l" >>
F_war_total == << "w", "a", "r", "_", "t", "o", "t", "a", "l" >>
F_bpm_dum == << "b", "p", "m", "-", "d", "u", "m" >>
F_ws_dum == << "w", "s", "-", "d", "u", "m" >>
F_DUMMY == << "D", "U", "M", "M", "Y" >>
RS == << "R", "S" >>
PO == << "P", "O" >>
CHA == << "C", "H", "A" >>
CHO == << "C", "H", "O" >>
BOS == << "B", "O", "S" >>

\* the directory data/raptor and its three files
RaptorDir == << "r", "a", "p", "t", "o", "r" >>

(***************************************************************************)
(* save(url, fname)                                                        *)
(***************************************************************************)
OK == 200

Responses ==
    { [status |-> OK,  text |-> "page"],
      [status |-> 404, text |-> "not found"],
      [status |-> 503, text |-> "busy"] }

NoResponse == [status |-> 0, text |-> ""]

NoFile == [age |-> -1, text |-> ""]


Url(site, year, page) == [site |-> site, year |-> year, page |-> page]

Job(url, fname) == [url |-> url, fname |-> fname]

NoJob == Job(Url("", << >>, ""), << << >>, "" >>)

\* a ceiling that gives up one retry earlier
RetryCeilingEarly == 6 - 1

\* `retries > 6` on line 81
RetryCeiling == 6

NoKey == << << >>, << >>, << >> >>

\* an exception: its class, its message, and the key or the job it carries
Err(type, text, key, job) == [type |-> type, text |-> text, key |-> key, job |-> job]

Raise(type) == Err(type, "", NoKey, NoJob)

NoError == Raise("none")

\* line 82: raise Exception(res.text, url, fname)
FetchError(r, t) == Err("Exception", r.text, NoKey, t)

\* lines 70-74: the first request, with the browser headers
SaveFirst ==
    /\ pc = "save"
    /\ \E r \in net :
        /\ res' = r
        /\ got' = << r >>
    /\ sleeps' = 1
    /\ retries' = 0
    /\ pc' = "save_loop"
    /\ UNCHANGED << worldVars, dataVars, fs, target, error, fetchVars, years, yi >>

\* lines 75-82: one pass of the while body
SaveRetry ==
    /\ pc = "save_loop"
    /\ res.status # OK
    /\ \E r \in net :
        /\ res' = r
        /\ got' = Append(got, r)
        /\ sleeps' = sleeps * 2
        /\ retries' = retries + 1
        /\ IF retries' > RetryCeiling
              THEN /\ pc' = "failed"
                   /\ error' = FetchError(r, target)
              ELSE /\ pc' = "save_loop"
                   /\ error' = error
    /\ UNCHANGED << worldVars, dataVars, fs, target, fetchVars, years, yi >>

\* lines 84-85: the loop is left with a 200 response, the body is written
SaveWrite ==
    /\ pc = "save_loop"
    /\ res.status = OK
    /\ fs' = [fs EXCEPT ![target.fname] = [age |-> 0, text |-> res.text]]
    /\ pc' = "fetch"
    /\ UNCHANGED << worldVars, dataVars, saveVars, error, fetchVars, years, yi >>

\* the caller's next save(url, fname), or its continuation when none is left
Fetch ==
    /\ pc = "fetch"
    /\ IF queue = << >>
          THEN /\ pc' = after
               /\ UNCHANGED << target, queue, fetched >>
          ELSE /\ target' = Head(queue)
               /\ queue' = Tail(queue)
               /\ fetched' = Append(fetched, Head(queue).fname)
               /\ pc' = "save"
    /\ UNCHANGED << worldVars, dataVars, fs, res, retries, sleeps, got, after,
                    years, yi, error >>

(***************************************************************************)
(* stale, get_bbref_data, download_data                                    *)
(***************************************************************************)
HOUR == 60 * 60

is_file(f) == fs[f] # NoFile

\* a staleness test that also counts a file exactly one hour old
staleAtTheHour(f) ==
    IF ~ is_file(f) THEN TRUE ELSE fs[f].age >= 1 * HOUR

\* lines 45-52; ages are whole seconds
stale(f) ==
    IF ~ is_file(f) THEN TRUE ELSE fs[f].age > 1 * HOUR

\* lines 97-107
pages ==
    << "totals", "per_game", "per_minute", "per_poss", "play-by-play",
       "advanced", "shooting", "adj_shooting", "rookies" >>

YearFile(year, page) == << year, page >>

\* lines 109-117: the saves get_bbref_data makes for one year, in order
get_bbref_data(year) ==
    [i \in 1..Len(pages) |->
        Job(Url("basketball-reference", year, pages[i]), YearFile(year, pages[i]))]
    \o << Job(Url("basketball-reference", year, "league"), YearFile(year, "teams")) >>

RaptorFile(name) == << RaptorDir, name >>

RaptorJob(name) == Job(Url("fivethirtyeight", << >>, name), RaptorFile(name))

\* lines 234-245: one pass of the loop over years
DownloadYear ==
    /\ pc = "download"
    /\ yi <= Len(years)
    /\ yi' = yi + 1
    /\ IF args.force_download \/ stale(YearFile(years[yi], "totals"))
          THEN /\ queue' = get_bbref_data(years[yi])
               /\ after' = "download"
               /\ pc' = "fetch"
          ELSE UNCHANGED << queue, after, pc >>
    /\ UNCHANGED << worldVars, dataVars, fs, saveVars, fetched, years, error >>

\* lines 247-266: the two archived rating files
DownloadRaptor ==
    /\ pc = "download"
    /\ yi > Len(years)
    /\ IF \/ ~ is_file(RaptorFile("historical_RAPTOR"))
          \/ ~ is_file(RaptorFile("modern_RAPTOR"))
          \/ args.force_download
          THEN /\ queue' = << RaptorJob("historical_RAPTOR"), RaptorJob("modern_RAPTOR") >>
               /\ after' = "latest"
               /\ pc' = "fetch"
          ELSE /\ pc' = "latest"
               /\ UNCHANGED << queue, after >>
    /\ UNCHANGED << worldVars, dataVars, fs, saveVars, fetched, years, yi, error >>

\* lines 268-274: the latest rating file
DownloadLatest ==
    /\ pc = "latest"
    /\ IF \/ ~ is_file(RaptorFile("latest_RAPTOR"))
          \/ stale(RaptorFile("latest_RAPTOR"))
          \/ args.force_download
          THEN /\ queue' = << RaptorJob("latest_RAPTOR") >>
               /\ after' = "process"
               /\ pc' = "fetch"
          ELSE /\ pc' = "process"
               /\ UNCHANGED << queue, after >>
    /\ UNCHANGED << worldVars, dataVars, fs, saveVars, fetched, years, yi, error >>

(***************************************************************************)
(* Table rows.  A row is the sequence of its <td> cells; a cell has its    *)
(* attributes and its children.                                            *)
(***************************************************************************)
Td(attrs, children) == [attrs |-> attrs, children |-> children]

StatOf(td) == td.attrs["data-stat"]

HasStat(tds) == \A i \in 1..Len(tds) : "data-stat" \in DOMAIN tds[i].attrs

\* the dict comprehensions of lines 139-144, 162-167 and 193-197: a later cell
\* replaces an earlier one of the same normalised name
stat_dict(tds, ignore, nonempty) ==
    LET kept == {i \in 1..Len(tds) :
                    /\ nonempty => StatOf(tds[i]) # << >>
                    /\ StatOf(tds[i]) \notin ignore}
        last(k) == CHOOSE i \in kept :
                    /\ replace(StatOf(tds[i])) = k
                    /\ \A j \in kept : replace(StatOf(tds[j])) = k => j <= i
    IN  [k \in {replace(StatOf(tds[i])) : i \in kept} |-> tryint(tds[last(k)].children)]

Ok(v) == [err |-> NoError, val |-> v]

Fail(type, v) == [err |-> Raise(type), val |-> v]

EmptyDict == [k \in {} |-> 0]

(***************************************************************************)
(* parse_bbref_row, parse_player_stats                                     *)
(***************************************************************************)
\* line 192
ignore == {F_bpm_dum, F_ws_dum, F_DUMMY}

PlayerKey(bb_ref_id, team, year) == << bb_ref_id, team, year >>

\* line 213: the merge of a row into the record its key already has
MergeRow(old, stats) == Merge(old, stats)

\* lines 190-213
parse_bbref_row(players, player, year) ==
    Bind(stat_dict(player, ignore, TRUE), LAMBDA stats :
    LET name == stats[F_player].cell.txt
        team == stats[F_team_id].cell.txt
        bb_ref_id == player[1].attrs["data-append-csv"]
        full == Merge(stats,
                      (F_name :> StrValue(Text(name)))
                      @@ (F_team :> StrValue(Text(team)))
                      @@ (F_bb_ref_id :> StrValue(Text(bb_ref_id)))
                      @@ (F_year :> StrValue(Text(year))))
        key == PlayerKey(bb_ref_id, team, year)
    IN  IF ~ HasStat(player) THEN Fail("KeyError", players)
        ELSE IF F_player \notin DOMAIN stats THEN Fail("KeyError", players)
        ELSE IF stats[F_player].kind # "str" THEN Fail("AssertionError", players)
        ELSE IF F_team_id \notin DOMAIN stats THEN Fail("KeyError", players)
        ELSE IF stats[F_team_id].kind # "str" THEN Fail("AssertionError", players)
        ELSE IF "data-append-csv" \notin DOMAIN player[1].attrs
            THEN Fail("KeyError", players)
        ELSE IF key \notin DOMAIN players THEN Ok(Merge(players, key :> full))
        ELSE Ok([players EXCEPT ![key] = MergeRow(players[key], full)]))

\* line 224
player_pages == << "totals", "advanced", "per_minute", "per_poss", "per_game" >>

\* lines 226-227: the rows of one page, in order, until one raises
RECURSIVE parse_rows(_, _, _, _)
parse_rows(acc, rows, i, year) ==
    Bind(acc, LAMBDA a :
        IF a.err # NoError \/ i > Len(rows) THEN a
        ELSE parse_rows(parse_bbref_row(a.val, rows[i], year), rows, i + 1, year))

\* lines 224-227: the pages from the p-th on; open() raises on a missing file
RECURSIVE parse_pages(_, _, _)
parse_pages(acc, p, year) ==
    Bind(acc, LAMBDA a :
        IF a.err # NoError \/ p > Len(player_pages) THEN a
        ELSE IF ~ is_file(YearFile(year, player_pages[p]))
            THEN Fail("FileNotFoundError", a.val)
        ELSE parse_pages(parse_rows(a, site_players[year][player_pages[p]], 1, year),
                         p + 1, year))

\* lines 219-229
parse_player_stats(year) == parse_pages(Ok(EmptyDict), 1, year)

\* lines 315-317: one pass of the loop over years
ParsePlayerYear ==
    /\ pc = "players"
    /\ \E parsed \in {parse_player_stats(years[yi])} :
        IF parsed.err # NoError
        THEN /\ pc' = "failed"
             /\ error' = parsed.err
             /\ UNCHANGED << player_data, yi >>
        ELSE /\ player_data' = Merge(parsed.val, player_data)
             /\ yi' = IF yi = Len(years) THEN 1 ELSE yi + 1
             /\ pc' = IF yi = Len(years) THEN "raptor" ELSE "players"
             /\ error' = error
    /\ UNCHANGED << worldVars, fs, saveVars, fetchVars, years, rpos,
                    team_list_of_dicts, logs, output >>

(***************************************************************************)
(* fix_team, parse_raptor_stats                                            *)
(***************************************************************************)
\* the year of the comparison on line 280
CHO_SINCE == 2014

\* an alias that already applies in the year of the rename
fix_teamFromRename(team, year) ==
    IF team = CHA /\ Signed(year, NatOf(Unsigned(year))) >= 2014 THEN CHO ELSE team

\* lines 278-282; int(year) raises on a year that is no integer literal
fix_team(team, year) ==
    IF team = CHA /\ Signed(year, NatOf(Unsigned(year))) > CHO_SINCE THEN CHO ELSE team

\* line 288
raptor_files == << "latest_RAPTOR", "modern_RAPTOR", "historical_RAPTOR" >>

\* lines 299-301: the columns of a row that are merged
rating_columns(row) ==
    DOMAIN row \ {F_player_name, F_player_id, F_team, F_season, F_season_type}

InYears(year) == \E i \in 1..Len(years) : years[i] = year

MissingPlayer(key) == Err("Exception", "Couldn't find", key, NoJob)

\* line 302: the lookup that decides whether the row's player is known
Known(data, key) == key \in DOMAIN data

\* a fill that lets the rating row replace what the record holds
FillOver(record, row) ==
    Merge(record, [k \in (DOMAIN row \ {F_player_name, F_player_id, F_team, F_season,
                                         F_season_type}) |-> tryint(Text(row[k]))])

\* lines 304-306: a column the record already has is left alone
FillFrom(record, row) ==
    Merge([k \in rating_columns(row) |-> tryint(Text(row[k]))], record)

\* lines 290-306: one row of a rating file
raptor_row(data, row) ==
    LET pid == row[F_player_id]
        year == row[F_season]
        team == fix_team(row[F_team], year)
        key == PlayerKey(pid, team, year)
    IN  IF row[F_season_type] # RS THEN Ok(data)
        ELSE IF ~ InYears(year) THEN Ok(data)
        ELSE IF rating_columns(row) = {} THEN Ok(data)
        ELSE IF ~ Known(data, key) THEN [err |-> MissingPlayer(key), val |-> data]
        ELSE Ok([data EXCEPT ![key] = FillFrom(data[key], row)])

RaptorRows == site_raptor[raptor_files[rpos.file]]

\* where the reader stands after the row (or the opening) at position `at`
NextRow(at, n) ==
    IF at.row < n THEN [at EXCEPT !.row = at.row + 1]
    ELSE [file |-> at.file + 1, row |-> 0]

\* line 289: the next rating file is opened
RaptorOpen ==
    /\ pc = "raptor"
    /\ rpos.row = 0
    /\ IF ~ is_file(RaptorFile(raptor_files[rpos.file]))
          THEN /\ pc' = "failed"
               /\ error' = Raise("FileNotFoundError")
               /\ rpos' = rpos
          ELSE /\ rpos' = NextRow(rpos, Len(RaptorRows))
               /\ pc' = IF rpos'.file > Len(raptor_files) THEN "teams" ELSE "raptor"
               /\ error' = error
    /\ UNCHANGED << worldVars, fs, saveVars, fetchVars, years, yi, player_data,
                    team_list_of_dicts, logs, output >>

\* lines 289-306: the next row of the open rating file
RaptorRow ==
    /\ pc = "raptor"
    /\ rpos.row > 0
    /\ \E merged \in {raptor_row(player_data, RaptorRows[rpos.row])} :
        /\ player_data' = merged.val
        /\ IF merged.err # NoError
              THEN /\ pc' = "failed"
                   /\ error' = merged.err
                   /\ rpos' = rpos
              ELSE /\ rpos' = NextRow(rpos, Len(RaptorRows))
                   /\ pc' = IF rpos'.file > Len(raptor_files) THEN "teams" ELSE "raptor"
                   /\ error' = error
    /\ UNCHANGED << worldVars, fs, saveVars, fetchVars, years, yi,
                    team_list_of_dicts, logs, output >>

(***************************************************************************)
(* parse_team_stats                                                        *)
(***************************************************************************)
\* rows[lo:hi]
slice(rows, lo, hi) ==
    SubSeq(rows, lo + 1, IF hi < Len(rows) THEN hi ELSE Len(rows))

\* find_all("tr")[1:31] on line 138 and [2:32] on line 161
TOTALS_SLICE == << 1, 31 >>
ADVANCED_SLICE == << 2, 32 >>

\* a dict that remembers the order in which its keys were first set
EmptyOrdered == [keys |-> << >>, val |-> EmptyDict]

\* a list of pairs in place of the dict: a key set again is a second entry
ListAppend(d, k, v) ==
    [keys |-> Append(d.keys, k), val |-> Merge(d.val, k :> v)]

DictSet(d, k, v) ==
    [keys |-> IF k \in DOMAIN d.val THEN d.keys ELSE Append(d.keys, k),
     val |-> Merge(d.val, k :> v)]

\* a merge in which the totals table's value is the one kept
MergeKeepTotals(teamstats, miscstats) == Merge(miscstats, teamstats)

\* line 176: the merge of an advanced row into the record of its team
MergeMisc(teamstats, miscstats) == Merge(teamstats, miscstats)

\* line 174: whether the advanced row's team was found in the totals table
InTotals(teamdata, shortname) == shortname \in DOMAIN teamdata.val

\* lines 139-156: one row of the totals table
totals_row(teamdata, team) ==
    Bind(stat_dict(team, {}, FALSE), LAMBDA teamstats :
    LET cell == teamstats[F_team].cell
        name == rstrip(cell.txt)
        shortname == cell.href
    IN  IF ~ HasStat(team) THEN Fail("KeyError", teamdata)
        ELSE IF F_team \notin DOMAIN teamstats THEN Fail("KeyError", teamdata)
        ELSE IF teamstats[F_team].kind # "str" THEN Fail("AssertionError", teamdata)
        ELSE IF shortname = << >> THEN Fail("AssertionError", teamdata)
        ELSE Ok(DictSet(teamdata, shortname,
                        Merge(teamstats,
                              (F_name :> StrValue(Text(name)))
                              @@ (F_shortname :> StrValue(Text(shortname)))))))

NotInTotals(shortname, year) == [msg |-> "not in totals", team |-> shortname, year |-> year]

NoTeamFile(year) == [msg |-> "file not found", team |-> << >>, year |-> year]

\* lines 162-178: one row of the advanced table; `acc` is the dict and the warnings
advanced_row(acc, team, year) ==
    Bind(stat_dict(team, {}, FALSE), LAMBDA miscstats :
    LET shortname == miscstats[F_team].cell.href
        teamdata == acc.teamdata
    IN  IF ~ HasStat(team) THEN Fail("KeyError", acc)
        ELSE IF F_team \notin DOMAIN miscstats THEN Fail("KeyError", acc)
        ELSE IF miscstats[F_team].kind # "str" THEN Fail("AssertionError", acc)
        ELSE IF shortname = << >> THEN Fail("AssertionError", acc)
        ELSE IF InTotals(teamdata, shortname)
            THEN Ok([acc EXCEPT !.teamdata =
                        DictSet(teamdata, shortname,
                                MergeMisc(teamdata.val[shortname], miscstats))])
        ELSE Ok([acc EXCEPT !.logs = @ \cup {NotInTotals(shortname, year)}]))

RECURSIVE totals_rows(_, _, _)
totals_rows(acc, rows, i) ==
    Bind(acc, LAMBDA a :
        IF a.err # NoError \/ i > Len(rows) THEN a
        ELSE totals_rows(totals_row(a.val, rows[i]), rows, i + 1))

RECURSIVE advanced_rows(_, _, _, _)
advanced_rows(acc, rows, i, year) ==
    Bind(acc, LAMBDA a :
        IF a.err # NoError \/ i > Len(rows) THEN a
        ELSE advanced_rows(advanced_row(a.val, rows[i], year), rows, i + 1, year))

\* lines 183-185: every record is stamped with the year, in the dict's order
final_team_list(teamdata, year) ==
    [i \in 1..Len(teamdata.keys) |->
        Merge(teamdata.val[teamdata.keys[i]], F_year :> StrValue(Text(year)))]

\* lines 135-156: the totals table, when the page has one
parse_totals(page) ==
    IF page.has_totals
        THEN totals_rows(Ok(EmptyOrdered),
                         slice(page.totals, TOTALS_SLICE[1], TOTALS_SLICE[2]), 1)
    ELSE Ok(EmptyOrdered)

\* lines 158-178: the advanced table, when the page has one
parse_advanced(teamdata, page, year) ==
    IF page.has_advanced
        THEN advanced_rows(Ok([teamdata |-> teamdata, logs |-> {}]),
                           slice(page.advanced, ADVANCED_SLICE[1], ADVANCED_SLICE[2]),
                           1, year)
    ELSE Ok([teamdata |-> teamdata, logs |-> {}])

\* lines 122-187; the result carries the rows and the warnings logged
parse_team_stats(year) ==
    IF ~ is_file(YearFile(year, "teams"))
        THEN [err |-> NoError, val |-> << >>, logs |-> {NoTeamFile(year)}]
    ELSE Bind(parse_totals(site_teams[year]), LAMBDA first :
        IF first.err # NoError THEN [err |-> first.err, val |-> << >>, logs |-> {}]
        ELSE Bind(parse_advanced(first.val, site_teams[year], year), LAMBDA second :
            IF second.err # NoError
                THEN [err |-> second.err, val |-> << >>, logs |-> second.val.logs]
            ELSE [err |-> NoError, val |-> final_team_list(second.val.teamdata, year),
                  logs |-> second.val.logs]))

\* lines 324-326: one pass of the loop over years
ParseTeamYear ==
    /\ pc = "teams"
    /\ \E parsed \in {parse_team_stats(years[yi])} :
        /\ logs' = logs \cup parsed.logs
        /\ IF parsed.err # NoError
              THEN /\ pc' = "failed"
                   /\ error' = parsed.err
                   /\ UNCHANGED << team_list_of_dicts, yi >>
              ELSE /\ team_list_of_dicts' = team_list_of_dicts \o parsed.val
                   /\ yi' = IF yi = Len(years) THEN 1 ELSE yi + 1
                   /\ pc' = IF yi = Len(years) THEN "export" ELSE "teams"
                   /\ error' = error
    /\ UNCHANGED << worldVars, fs, saveVars, fetchVars, years, player_data, rpos,
                    output >>

(***************************************************************************)
(* process_data: the data frame and the CSV file                           *)
(***************************************************************************)
NaN == Value("nan", 0, Text(<< >>))

IsEmptyStr(v) == v.kind = "str" /\ ~ v.cell.markup /\ v.cell.txt = << >>

IsNumber(v) == v.kind \in {"int", "float", "nan"}

Columns(rows) == UNION {DOMAIN rows[i] : i \in 1..Len(rows)}

\* line 336: one row per dict, NaN where a dict lacks a column
DataFrame(rows) ==
    Bind(Columns(rows), LAMBDA columns :
        [i \in 1..Len(rows) |->
            [c \in columns |-> IF c \in DOMAIN rows[i] THEN rows[i][c] ELSE NaN]])

\* the dtype pandas infers for a column
dtype(frame, c) ==
    Bind({frame[i][c].kind : i \in 1..Len(frame)}, LAMBDA kinds :
        IF kinds = {"int"} THEN "int64"
        ELSE IF kinds # {} /\ kinds \subseteq {"int", "float", "nan"} THEN "float64"
        ELSE "object")

\* line 342: rename(columns={'shortname': 'team_id'})
rename(row) ==
    [c \in {IF k = F_shortname THEN F_team_id ELSE k : k \in DOMAIN row} |->
        IF c = F_team_id /\ F_shortname \in DOMAIN row THEN row[F_shortname] ELSE row[c]]

\* column.head(20) on line 363
HEAD == 20

\* lines 364-367: some element of the head is a Python float or int
numeric_head(frame, c, type) ==
    /\ type # "int64"
    /\ \E i \in 1..Len(frame) : i <= HEAD /\ IsNumber(frame[i][c])

\* what the frame holds in a cell once pandas has typed its column
typed(v, type) ==
    IF type = "float64" /\ v.kind = "int"
        THEN Value("float", v.num * Pow10(ROUND_DIGITS), v.cell)
    ELSE v

\* lines 360-369 for one column; `inplace` says whether replace(inplace=True)
\* on the column object reaches the frame, which pandas' copy-on-write mode
\* decides.  astype("int32") changes no value below 2^31, and the model holds
\* no other.
converted(frame, c, inplace) ==
    Bind(dtype(frame, c), LAMBDA type :
    Bind(inplace /\ numeric_head(frame, c, type), LAMBDA zeroed :
        [i \in 1..Len(frame) |->
            IF zeroed /\ IsEmptyStr(frame[i][c]) THEN Value("float", 0, Text(<< >>))
            ELSE typed(frame[i][c], type)]))

\* lines 333-376: the rows written to nba_team_efficiency.csv
final_df(rows, inplace) ==
    Bind(DataFrame([i \in 1..Len(rows) |-> rename(rows[i])]), LAMBDA frame :
    Bind([c \in Columns(frame) |-> converted(frame, c, inplace)], LAMBDA column :
        [i \in 1..Len(frame) |-> [c \in DOMAIN column |-> column[c][i]]]))

NotWritten == [written |-> FALSE, rows |-> << >>]

\* lines 328-378
Export ==
    /\ pc = "export"
    /\ \E inplace \in BOOLEAN :
        \E rows \in {final_df(team_list_of_dicts, inplace)} :
            output' = [written |-> TRUE, rows |-> rows]
    /\ pc' = "done"
    /\ UNCHANGED << worldVars, fs, saveVars, fetchVars, years, yi, player_data, rpos,
                    team_list_of_dicts, logs, error >>

(***************************************************************************)
(* main                                                                    *)
(***************************************************************************)
MIN_YEAR == 2010
MAX_YEAR == 2026

\* how many seasons of range(MIN_YEAR, MAX_YEAR) the model follows
MaxSeasons == 2

\* the seasons followed: those from the year of the CHA/CHO rename on
Seasons ==
    {y \in MIN_YEAR..(MAX_YEAR - 1) : CHO_SINCE <= y /\ y < CHO_SINCE + MaxSeasons}

SeasonRange == [i \in 1..Cardinality(Seasons) |-> str(CHO_SINCE + i - 1)]

\* lines 381-390; a year_only of 0 stands for the option not given
Main ==
    /\ pc = "main"
    /\ years' = IF args.year_only # 0 THEN << str(args.year_only) >> ELSE SeasonRange
    /\ yi' = 1
    /\ pc' = IF args.no_download THEN "process" ELSE "download"
    /\ UNCHANGED << worldVars, dataVars, fs, saveVars, fetchVars, error >>

\* lines 311-313: process_data starts with empty collections
ProcessData ==
    /\ pc = "process"
    /\ player_data' = EmptyDict
    /\ team_list_of_dicts' = << >>
    /\ rpos' = [file |-> 1, row |-> 0]
    /\ yi' = 1
    /\ pc' = "players"
    /\ UNCHANGED << worldVars, fs, saveVars, fetchVars, years, logs, output, error >>

(***************************************************************************)
(* The inputs the model enumerates                                         *)
(***************************************************************************)
\* the longest table (in data rows) and the longest rating file (in rows)
MaxRows == 2
MaxRatingRows == 2

SeqsUpTo(S, n) == UNION {[1..k -> S] : k \in 0..n}

SeasonStrs == {str(y) : y \in Seasons}

Files ==
    {YearFile(y, pages[i]) : y \in SeasonStrs, i \in 1..Len(pages)}
    \cup {YearFile(y, "teams") : y \in SeasonStrs}
    \cup {RaptorFile(raptor_files[i]) : i \in 1..Len(raptor_files)}

Aged(age) == [age |-> age, text |-> "old"]

P1 == << "a", "b", "0", "1" >>
P2 == << "c", "d", "0", "2" >>
T_1 == << "1" >>
T_2 == << "2" >>
T_low == << "-", "1", ".", "5" >>
T_long == << ".", "1", "2", "3", "4", "6" >>
T_name == << "A", "l" >>
T_star == << "B", "o", "*" >>

StatTd(stat, cell) == Td("data-stat" :> stat, cell)

\* a player row as the site writes it: the player cell carries the identifier
PlayerRow(pid, team, rest) ==
    << Td(("data-stat" :> F_player) @@ ("data-append-csv" :> pid), Cell(TRUE, << >>, T_name)),
       StatTd(F_team_id, Cell(TRUE, team, team)) >> \o rest

TotalsPlayerRows ==
    {PlayerRow(pid, CHO, << StatTd(F_g, Text(g)), StatTd(F_mp, Text(T_2)) >>) :
        pid \in {P1, P2}, g \in {T_1, T_2}}

AdvancedPlayerRows ==
    {PlayerRow(pid, CHO, << StatTd(F_g, Text(g)), StatTd(F_per, Text(T_low)),
                            StatTd(F_bpm_dum, Text(<< >>)) >>) :
        pid \in {P1, P2}, g \in {T_1, T_2}}

\* a later page: empty, one more row of the first player, or a broken row
LaterPlayerPages ==
    { << >>,
      << PlayerRow(P1, CHO, << StatTd(F_g, Text(T_2)), StatTd(<< >>, Text(T_1)) >>) >>,
      << << StatTd(F_player, Text(T_1)) >> >> }

PlayerSites ==
    {[page \in {player_pages[i] : i \in 1..Len(player_pages)} |->
        CASE page = "totals" -> t
          [] page = "advanced" -> a
          [] page = "per_minute" -> m
          [] OTHER -> g] :
        t \in SeqsUpTo(TotalsPlayerRows, MaxRows),
        a \in SeqsUpTo(AdvancedPlayerRows, MaxRows),
        m \in LaterPlayerPages, g \in LaterPlayerPages}

\* a season whose pages hold one player of `team`
SmallPlayerSite(team) ==
    [page \in {player_pages[i] : i \in 1..Len(player_pages)} |->
        IF page = "totals"
            THEN << PlayerRow(P1, team, << StatTd(F_g, Text(T_1)), StatTd(F_mp, Text(T_2)) >>) >>
        ELSE << >>]

\* every file of the cache present and `age` seconds old
AllFiles(age) == [f \in Files |-> Aged(age)]

Without(files, gone) == [f \in DOMAIN files |-> IF f \in gone THEN NoFile ELSE files[f]]

NoArgs == [year_only |-> 0, no_download |-> TRUE, force_download |-> FALSE]

\* nothing is being saved
SaveIdle ==
    /\ res = NoResponse
    /\ retries = 0
    /\ sleeps = 0
    /\ got = << >>
    /\ target = NoJob
    /\ queue = << >>
    /\ after = ""
    /\ fetched = << >>

\* nothing has been processed
DataIdle ==
    /\ player_data = EmptyDict
    /\ rpos = [file |-> 1, row |-> 0]
    /\ team_list_of_dicts = << >>
    /\ logs = {}
    /\ output = NotWritten
    /\ error = NoError

EmptyTeamPage == [has_totals |-> FALSE, totals |-> << >>, has_advanced |-> FALSE, advanced |-> << >>]

NoRatings == [f \in {raptor_files[i] : i \in 1..Len(raptor_files)} |-> << >>]

(***************************************************************************)
(* save on its own: one call, any sequence of responses                    *)
(***************************************************************************)
InitSave ==
    /\ net = Responses
    /\ \E f \in Files, before \in {NoFile, Aged(0), Aged(HOUR + 1)} :
        /\ fs = [AllFiles(0) EXCEPT ![f] = before]
        /\ queue = << Job(Url("basketball-reference", f[1], f[2]), f) >>
    /\ fs0 = fs
    /\ res = NoResponse
    /\ retries = 0
    /\ sleeps = 0
    /\ got = << >>
    /\ target = NoJob
    /\ after = "returned"
    /\ fetched = << >>
    /\ args = NoArgs
    /\ years = << >>
    /\ yi = 1
    /\ site_players = [y \in SeasonStrs |-> SmallPlayerSite(CHO)]
    /\ site_teams = [y \in SeasonStrs |-> EmptyTeamPage]
    /\ site_raptor = NoRatings
    /\ DataIdle
    /\ pc = "fetch"

NextSave == Fetch \/ SaveFirst \/ SaveRetry \/ SaveWrite

SpecSave == InitSave /\ [][NextSave]_vars

(***************************************************************************)
(* The download phase: main without --no-download, up to process_data      *)
(***************************************************************************)
FirstSeason == str(CHO_SINCE)

\* the first season's files in any state; the later seasons fresh or without totals
Caches ==
    {[f \in Files |->
        IF f[1] = RaptorDir
            THEN (IF f[2] = "latest_RAPTOR" THEN latest
                  ELSE IF f[2] \in gone THEN NoFile ELSE Aged(HOUR + 1))
        ELSE IF f[1] = FirstSeason THEN (IF f[2] = "totals" THEN totals ELSE others)
        ELSE IF f[2] = "totals" /\ f[1] \in bare THEN NoFile ELSE Aged(0)] :
        totals \in {NoFile, Aged(0), Aged(HOUR), Aged(HOUR + 1)},
        others \in {NoFile, Aged(0), Aged(HOUR + 1)},
        latest \in {NoFile, Aged(0), Aged(HOUR + 1)},
        gone \in {{}, {"historical_RAPTOR"}, {"modern_RAPTOR"}},
        bare \in SUBSET (SeasonStrs \ {FirstSeason})}

InitDownload ==
    /\ net = {r \in Responses : r.status \in {OK, 503}}
    /\ fs \in Caches
    /\ fs0 = fs
    /\ args \in [year_only : {0, CHO_SINCE}, no_download : {FALSE}, force_download : BOOLEAN]
    /\ years = << >>
    /\ yi = 1
    /\ site_players = [y \in SeasonStrs |-> SmallPlayerSite(CHO)]
    /\ site_teams = [y \in SeasonStrs |-> EmptyTeamPage]
    /\ site_raptor = NoRatings
    /\ SaveIdle
    /\ DataIdle
    /\ pc = "main"

NextDownload ==
    \/ Main
    \/ DownloadYear
    \/ DownloadRaptor
    \/ DownloadLatest
    \/ Fetch
    \/ SaveFirst
    \/ SaveRetry
    \/ SaveWrite

SpecDownload == InitDownload /\ [][NextDownload]_vars

(***************************************************************************)
(* parse_player_stats on its own: one season, any pages                    *)
(***************************************************************************)
InitPlayers ==
    /\ net = Responses
    /\ fs \in {AllFiles(0), Without(AllFiles(0), {YearFile(FirstSeason, "per_game")})}
    /\ fs0 = fs
    /\ args = [NoArgs EXCEPT !.year_only = CHO_SINCE]
    /\ years = << FirstSeason >>
    /\ yi = 1
    /\ \E site \in PlayerSites :
        site_players = [y \in SeasonStrs |-> IF y = FirstSeason THEN site ELSE SmallPlayerSite(CHO)]
    /\ site_teams = [y \in SeasonStrs |-> EmptyTeamPage]
    /\ site_raptor = NoRatings
    /\ SaveIdle
    /\ DataIdle
    /\ pc = "players"

NextPlayers == ParsePlayerYear

SpecPlayers == InitPlayers /\ [][NextPlayers]_vars

(***************************************************************************)
(* The rating merge: the player parse of every year, then every rating row *)
(***************************************************************************)
Rating(pid, team, season, type, columns) ==
    (F_player_name :> T_name) @@ (F_player_id :> pid) @@ (F_team :> team)
    @@ (F_season :> season) @@ (F_season_type :> type) @@ columns

Ratings(total) == (F_raptor_total :> total) @@ (F_mp :> T_1)

NoColumns == [k \in {} |-> << >>]

\* a season before the first one followed
EarlierSeason == str(CHO_SINCE - 1)

RatingRowChoices ==
    {Rating(P1, team, season, RS, columns) :
        team \in {CHA, BOS}, season \in SeasonStrs, columns \in {Ratings(T_low), NoColumns}}
    \cup {Rating(P1, CHO, season, RS, Ratings(T_2)) : season \in SeasonStrs}
    \cup {Rating(P2, BOS, FirstSeason, PO, Ratings(T_1)),
          Rating(P2, BOS, EarlierSeason, RS, Ratings(T_1))}

RatingSites ==
    {[f \in {raptor_files[i] : i \in 1..Len(raptor_files)} |->
        CASE f = "latest_RAPTOR" -> latest
          [] f = "modern_RAPTOR" -> modern
          [] OTHER -> << >>] :
        latest \in SeqsUpTo(RatingRowChoices, MaxRatingRows),
        modern \in {<< >>, << Rating(P1, CHA, FirstSeason, RS, Ratings(T_2)) >>,
                    << Rating(P1, CHA, str(CHO_SINCE + 1), RS, Ratings(T_1)) >>}}

\* the site of record: Charlotte is CHA up to the rename and CHO after it
SiteOfRecord ==
    [y \in SeasonStrs |-> SmallPlayerSite(IF y = FirstSeason THEN CHA ELSE CHO)]

InitRaptor ==
    /\ net = Responses
    /\ fs = AllFiles(0)
    /\ fs0 = fs
    /\ args \in {[NoArgs EXCEPT !.year_only = y] : y \in {0, CHO_SINCE, CHO_SINCE + 1}}
    /\ years = IF args.year_only # 0 THEN << str(args.year_only) >> ELSE SeasonRange
    /\ yi = 1
    /\ site_players = SiteOfRecord
    /\ site_teams = [y \in SeasonStrs |-> EmptyTeamPage]
    /\ site_raptor \in RatingSites
    /\ SaveIdle
    /\ DataIdle
    /\ pc = "players"

NextRaptor == ParsePlayerYear \/ RaptorOpen \/ RaptorRow

SpecRaptor == InitRaptor /\ [][NextRaptor]_vars

(***************************************************************************)
(* The team parse and the export                                           *)
(***************************************************************************)
TeamLink(code, txt) == StatTd(F_team, Cell(TRUE, code, txt))

TotalsTeamRows ==
    {<< TeamLink(code, T_star), StatTd(F_g, Text(g)), StatTd(F_pts, Text(T_long)) >> :
        code \in {BOS, CHO}, g \in {T_1, << >>}}

AdvancedTeamRows ==
    {<< TeamLink(code, T_name), StatTd(F_g, Text(g)), StatTd(F_off_rtg, Text(T_low)),
        StatTd(F_DUMMY, Text(<< >>)) >> :
        code \in {BOS, CHA}, g \in {T_2, << >>}}

\* a header row holds <th> cells only
HeaderRow == << >>

\* the closing "League Average" row: its team cell is plain text
AverageRow == << StatTd(F_team, Text(T_name)), StatTd(F_g, Text(T_1)) >>

TeamPage(has_totals, totals, has_advanced, advanced) ==
    [has_totals |-> has_totals, totals |-> << HeaderRow >> \o totals,
     has_advanced |-> has_advanced, advanced |-> << HeaderRow, HeaderRow >> \o advanced]

\* the number of franchises, and the code of the i-th
LEAGUE == TOTALS_SLICE[2] - TOTALS_SLICE[1]

Franchise(i) == << "T" >> \o str(i)

LeagueTotals ==
    [i \in 1..LEAGUE |-> << TeamLink(Franchise(i), T_star), StatTd(F_g, Text(str(i))) >>]
    \o << AverageRow >>

LeagueAdvanced ==
    [i \in 1..LEAGUE |->
        << TeamLink(Franchise(LEAGUE + 1 - i), T_name), StatTd(F_off_rtg, Text(T_low)) >>]
    \o << AverageRow >>

LeaguePage == TeamPage(TRUE, LeagueTotals, TRUE, LeagueAdvanced)

TeamPages ==
    {TeamPage(TRUE, t, TRUE, a) :
        t \in SeqsUpTo(TotalsTeamRows, MaxRows), a \in SeqsUpTo(AdvancedTeamRows, MaxRows)}
    \cup {TeamPage(FALSE, << >>, TRUE, << a >>) : a \in AdvancedTeamRows}
    \cup {TeamPage(TRUE, << t >>, FALSE, << >>) : t \in TotalsTeamRows}
    \cup {TeamPage(TRUE, << t, AverageRow >>, TRUE, << >>) : t \in TotalsTeamRows}
    \cup {LeaguePage}

SmallTeamPage ==
    TeamPage(TRUE, << << TeamLink(BOS, T_name), StatTd(F_g, Text(T_2)) >> >>,
             TRUE, << << TeamLink(CHA, T_name), StatTd(F_off_rtg, Text(T_low)) >> >>)

InitTeams ==
    /\ net = Responses
    /\ \E gone \in {{}, {YearFile(y, "teams") : y \in SeasonStrs \ {FirstSeason}}} :
        fs = Without(AllFiles(0), gone)
    /\ fs0 = fs
    /\ args \in {[NoArgs EXCEPT !.year_only = y] : y \in {0, CHO_SINCE}}
    /\ years = IF args.year_only # 0 THEN << str(args.year_only) >> ELSE SeasonRange
    /\ yi = 1
    /\ site_players = [y \in SeasonStrs |-> SmallPlayerSite(CHO)]
    /\ \E page \in TeamPages :
        site_teams = [y \in SeasonStrs |-> IF y = FirstSeason THEN page ELSE SmallTeamPage]
    /\ site_raptor = NoRatings
    /\ SaveIdle
    /\ DataIdle
    /\ pc = "teams"

NextTeams == ParseTeamYear \/ Export

SpecTeams == InitTeams /\ [][NextTeams]_vars

(***************************************************************************)
(* Claims about save                                                       *)
(***************************************************************************)
AllFailed(n) == Len(got) = n /\ \A i \in 1..n : got[i].status # OK

Aborted == pc = "failed" /\ error.type = "Exception" /\ error.job = target

\* C6 as stated: once the initial request and 6 retries have all returned a
\* non-200 status, save has raised the fatal error and asks no more.
C6_SixRetries == AllFailed(1 + 6) => Aborted

\* C6 amended: a request follows only non-200 responses; save raises the fatal
\* error, carrying the last response body and the URL, once the initial
\* request and 7 retries have been made, so whenever those 8 all returned
\* non-200; it never makes a 9th request and leaves the destination file as it
\* was when it aborts.
C6_SevenRetries ==
    /\ \A i \in 1..(Len(got) - 1) : got[i].status # OK
    /\ Len(got) <= 1 + 7
    /\ AllFailed(1 + 7) => Aborted
    /\ Aborted =>
        /\ Len(got) = 1 + 7
        /\ error = FetchError(got[Len(got)], target)
        /\ fs[target.fname] = fs0[target.fname]

C6_Witness == Aborted /\ AllFailed(1 + 7) /\ fs0[target.fname] # NoFile

\* C10: a 200 response is never followed by another request, its body is what
\* the destination file holds when save returns, and the fatal error is
\* raised only when the last response received was not a 200.
C10_SuccessKept ==
    /\ \A i \in 1..(Len(got) - 1) : got[i].status # OK
    /\ pc = "returned" =>
        /\ got[Len(got)].status = OK
        /\ fs[target.fname] = [age |-> 0, text |-> got[Len(got)].text]
    /\ Aborted => got[Len(got)].status # OK

(***************************************************************************)
(* Claims about the download phase                                         *)
(***************************************************************************)
Downloaded(f) == \E i \in 1..Len(fetched) : fetched[i] = f

\* missing, or older than one hour, when the run began
WasStale(f) == fs0[f] = NoFile \/ fs0[f].age > HOUR

SeasonPages == {pages[i] : i \in 1..Len(pages)} \cup {"teams"}

DownloadDone == pc = "process"

\* C7 as stated: without the force flag a page of a requested season is
\* downloaded exactly when its own file is missing or older than one hour,
\* and with the force flag every page is downloaded.
C7_PerPage ==
    DownloadDone =>
        \A i \in 1..Len(years), p \in SeasonPages :
            Downloaded(YearFile(years[i], p))
                <=> (args.force_download \/ WasStale(YearFile(years[i], p)))

\* C7 amended: the pages of a season are downloaded together; a page of a
\* requested season is downloaded exactly when the force flag is set or the
\* season's totals.html is missing or older than one hour, whatever the state
\* of the page's own file, and no page is requested on any other ground.
C7_PerSeason ==
    /\ \A i \in 1..Len(fetched) :
            fetched[i][1] # RaptorDir =>
                (args.force_download \/ WasStale(YearFile(fetched[i][1], "totals")))
    /\ DownloadDone =>
            \A i \in 1..Len(years), p \in SeasonPages :
                Downloaded(YearFile(years[i], p))
                    <=> (args.force_download \/ WasStale(YearFile(years[i], "totals")))

\* a finished download that skipped a missing page and fetched a fresh one
C7_Witness ==
    /\ DownloadDone
    /\ ~ args.force_download
    /\ \E i \in 1..Len(years) :
            /\ fs0[YearFile(years[i], "teams")] = NoFile
            /\ ~ Downloaded(YearFile(years[i], "teams"))
    /\ \E i \in 1..Len(years) :
            /\ fs0[YearFile(years[i], "teams")] = Aged(0)
            /\ Downloaded(YearFile(years[i], "teams"))

(***************************************************************************)
(* A run of main: download, player parse, rating merge, team parse, export *)
(***************************************************************************)
\* the cache complete, or out of date, or short of one file
MainCaches ==
    {AllFiles(0), AllFiles(HOUR + 1)}
    \cup {Without(AllFiles(0), {f}) :
            f \in {YearFile(FirstSeason, "per_game"), YearFile(FirstSeason, "teams"),
                   RaptorFile("modern_RAPTOR")}}

\* no rating row, a row of a known player, and rows of a player no page has
MainRatings ==
    {[NoRatings EXCEPT !["latest_RAPTOR"] = rows] :
        rows \in {<< >>,
                  << Rating(P1, CHA, FirstSeason, RS, Ratings(T_low)) >>,
                  << Rating(P2, BOS, FirstSeason, RS, Ratings(T_low)) >>,
                  << Rating(P2, BOS, FirstSeason, RS, NoColumns) >>}}

Init ==
    /\ net = {r \in Responses : r.status \in {OK, 503}}
    /\ fs \in MainCaches
    /\ fs0 = fs
    /\ args \in [year_only : {0, CHO_SINCE}, no_download : BOOLEAN, force_download : BOOLEAN]
    /\ years = << >>
    /\ yi = 1
    /\ site_players = SiteOfRecord
    /\ site_teams = [y \in SeasonStrs |-> SmallTeamPage]
    /\ site_raptor \in MainRatings
    /\ SaveIdle
    /\ DataIdle
    /\ pc = "main"

Next ==
    \/ Main
    \/ DownloadYear
    \/ DownloadRaptor
    \/ DownloadLatest
    \/ Fetch
    \/ SaveFirst
    \/ SaveRetry
    \/ SaveWrite
    \/ ProcessData
    \/ ParsePlayerYear
    \/ RaptorOpen
    \/ RaptorRow
    \/ ParseTeamYear
    \/ Export

Spec == Init /\ [][Next]_vars

(***************************************************************************)
(* Claims about the player merge                                           *)
(***************************************************************************)
PageRows(p) == site_players[years[1]][player_pages[p]]

\* the identity of a row as the site writes it
RowId(row) == << row[1].attrs["data-append-csv"], row[2].children.txt, years[1] >>

Supplies(row, f) == \E t \in 1..Len(row) : StatOf(row[t]) = f

Supplied(row, f) == tryint(row[CHOOSE t \in 1..Len(row) : StatOf(row[t]) = f].children)

Occurrences(k) ==
    {at \in (1..Len(player_pages)) \X (1..(MaxRows + 1)) :
        at[2] <= Len(PageRows(at[1])) /\ RowId(PageRows(at[1])[at[2]]) = k}

PlayersParsed == pc = "raptor" /\ rpos = [file |-> 1, row |-> 0]

\* C1: when an identity has a row in two pages (and no third row), every
\* field both rows supply with differing values has, in the merged record,
\* the value of the page that was merged first.
C1_FirstPageWins ==
    PlayersParsed =>
        \A p, q \in 1..Len(player_pages) :
            \A i \in 1..Len(PageRows(p)), j \in 1..Len(PageRows(q)) :
                (/\ p < q
                 /\ RowId(PageRows(p)[i]) = RowId(PageRows(q)[j])
                 /\ Cardinality(Occurrences(RowId(PageRows(p)[i]))) = 2)
                => \A f \in {F_g, F_mp, F_per} :
                    (/\ Supplies(PageRows(p)[i], f)
                     /\ Supplies(PageRows(q)[j], f)
                     /\ Supplied(PageRows(p)[i], f) # Supplied(PageRows(q)[j], f))
                    => player_data[RowId(PageRows(p)[i])][f] = Supplied(PageRows(p)[i], f)

(***************************************************************************)
(* Claims about the rating merge                                           *)
(***************************************************************************)
RatingRow(f, r) == site_raptor[raptor_files[f]][r]

\* the rows the merge has finished with
Processed ==
    {at \in (1..Len(raptor_files)) \X (1..(MaxRatingRows + 1)) :
        /\ at[2] <= Len(site_raptor[raptor_files[at[1]]])
        /\ pc \in {"raptor", "teams", "export", "done", "failed"}
        /\ at[1] < rpos.file \/ (at[1] = rpos.file /\ at[2] < rpos.row)}

AfterRename == {str(y) : y \in 2015..MAX_YEAR}

\* the identity a rating row stands for, by the alias rule
Resolved(row) ==
    << row[F_player_id],
       IF row[F_team] = CHA /\ row[F_season] \in AfterRename THEN CHO ELSE row[F_team],
       row[F_season] >>

Expected(row) == row[F_season_type] = RS /\ InYears(row[F_season])

MergeAborted == pc = "failed" /\ error.type = "Exception" /\ rpos.row > 0

\* C3: a regular-season row of a processed year whose identity is not in the
\* player set aborts the merge with an error naming the identity: the merge
\* never gets past such a row.
C3_MissingIsFatal ==
    /\ \A at \in Processed :
            Expected(RatingRow(at[1], at[2]))
                => Resolved(RatingRow(at[1], at[2])) \in DOMAIN player_data
    /\ MergeAborted => error.key = Resolved(RatingRow(rpos.file, rpos.row))

\* C4: a step of the rating merge, finishing or aborting, leaves the set of
\* identities as it was and changes no field a record already had.
C4_Frame ==
    [][pc = "raptor" =>
        /\ DOMAIN player_data' = DOMAIN player_data
        /\ \A k \in DOMAIN player_data :
            \A f \in DOMAIN player_data[k] :
                /\ f \in DOMAIN player_data'[k]
                /\ player_data'[k][f] = player_data[k][f]]_vars

\* a record that took the rating of a row and kept its own minutes
C4_Witness ==
    /\ pc = "teams"
    /\ \E k \in DOMAIN player_data :
        /\ F_raptor_total \in DOMAIN player_data[k]
        /\ player_data[k][F_mp] = tryint(Text(T_2))
        /\ \E at \in Processed :
            /\ Resolved(RatingRow(at[1], at[2])) = k
            /\ F_mp \in DOMAIN RatingRow(at[1], at[2])
            /\ RatingRow(at[1], at[2])[F_mp] = T_1

\* C8: the identity looked up for a rating row has team CHO when the row has
\* CHA and a season after 2014, CHA when it has CHA and a season up to 2014,
\* and the row's own team otherwise: that is the identity an abort names and
\* the record that takes the row's ratings.
C8_Alias ==
    /\ MergeAborted => error.key = Resolved(RatingRow(rpos.file, rpos.row))
    /\ \A at \in Processed :
            (Expected(RatingRow(at[1], at[2])) /\ rating_columns(RatingRow(at[1], at[2])) # {})
            => /\ Resolved(RatingRow(at[1], at[2])) \in DOMAIN player_data
               /\ rating_columns(RatingRow(at[1], at[2]))
                    \subseteq DOMAIN player_data[Resolved(RatingRow(at[1], at[2]))]

\* a finished merge that read a CHA row of 2014 and a CHA row of 2015
C8_Witness ==
    /\ pc = "teams"
    /\ \E a, b \in Processed :
        /\ RatingRow(a[1], a[2])[F_team] = CHA
        /\ RatingRow(a[1], a[2])[F_season] = str(2014)
        /\ Resolved(RatingRow(a[1], a[2]))[2] = CHA
        /\ rating_columns(RatingRow(a[1], a[2])) # {}
        /\ RatingRow(b[1], b[2])[F_team] = CHA
        /\ RatingRow(b[1], b[2])[F_season] = str(2015)
        /\ Resolved(RatingRow(b[1], b[2]))[2] = CHO
        /\ Resolved(RatingRow(b[1], b[2])) \in DOMAIN player_data
        /\ F_raptor_total \in DOMAIN player_data[Resolved(RatingRow(b[1], b[2]))]

(***************************************************************************)
(* Claims about the team pages                                             *)
(***************************************************************************)
HasTeamPage(y) == fs[YearFile(y, "teams")].age >= 0

\* the rows of the two tables that follow the header rows, thirty at most
TotalsAt(y) ==
    IF HasTeamPage(y) /\ site_teams[y].has_totals
        THEN {i \in 2..31 : i <= Len(site_teams[y].totals)}
    ELSE {}

AdvancedAt(y) ==
    IF HasTeamPage(y) /\ site_teams[y].has_advanced
        THEN {i \in 3..32 : i <= Len(site_teams[y].advanced)}
    ELSE {}

CodeOf(row) == row[CHOOSE t \in 1..Len(row) : StatOf(row[t]) = F_team].children.href

TotalsCodes(y) == {CodeOf(site_teams[y].totals[i]) : i \in TotalsAt(y)}

AdvancedCodes(y) == {CodeOf(site_teams[y].advanced[i]) : i \in AdvancedAt(y)}

IsLast(at, rows, i) == \A j \in at : CodeOf(rows[j]) = CodeOf(rows[i]) => j <= i

TeamRecords(c, y) ==
    {i \in 1..Len(team_list_of_dicts) :
        /\ team_list_of_dicts[i][F_shortname] = StrValue(Text(c))
        /\ team_list_of_dicts[i][F_year] = StrValue(Text(y))}

Stars(n) == [i \in 1..n |-> "*"]

\* `name` is `txt` without the asterisks it ends with
IsStripped(name, txt) ==
    /\ \E n \in 0..Len(txt) : txt = name \o Stars(n)
    /\ name = << >> \/ name[Len(name)] # "*"

FirstYearParsed == (pc = "teams" /\ yi > 1) \/ pc \in {"export", "done"}

\* C2: for a team code found in both tables of a season's page, the record
\* holds the advanced table's value for every field the advanced row supplies
\* and the totals table's value for every field only the totals row supplies,
\* the derived name and shortname among them.
C2_SecondPageWins ==
    FirstYearParsed =>
        \A t \in TotalsAt(years[1]), a \in AdvancedAt(years[1]) :
            LET first == site_teams[years[1]].totals
                second == site_teams[years[1]].advanced
            IN  (/\ CodeOf(first[t]) = CodeOf(second[a])
                 /\ IsLast(TotalsAt(years[1]), first, t)
                 /\ IsLast(AdvancedAt(years[1]), second, a))
                => /\ TeamRecords(CodeOf(first[t]), years[1]) # {}
                   /\ \A i \in TeamRecords(CodeOf(first[t]), years[1]) :
                        /\ \A f \in {F_team, F_g, F_pts, F_off_rtg, F_DUMMY} :
                            /\ Supplies(second[a], f)
                                => team_list_of_dicts[i][f] = Supplied(second[a], f)
                            /\ (Supplies(first[t], f) /\ ~ Supplies(second[a], f))
                                => team_list_of_dicts[i][f] = Supplied(first[t], f)
                        /\ team_list_of_dicts[i][F_name].kind = "str"
                        /\ IsStripped(team_list_of_dicts[i][F_name].cell.txt,
                                      Supplied(first[t], F_team).cell.txt)

\* a team whose games differ between the two tables, and pts only in totals
C2_Witness ==
    /\ FirstYearParsed
    /\ \E t \in TotalsAt(years[1]), a \in AdvancedAt(years[1]) :
        LET first == site_teams[years[1]].totals
            second == site_teams[years[1]].advanced
        IN  /\ CodeOf(first[t]) = CodeOf(second[a])
            /\ Supplied(first[t], F_g) = tryint(Text(T_1))
            /\ Supplied(second[a], F_g) = tryint(Text(T_2))
            /\ \E i \in TeamRecords(CodeOf(first[t]), years[1]) :
                /\ team_list_of_dicts[i][F_g] = tryint(Text(T_2))
                /\ team_list_of_dicts[i][F_pts] = Supplied(first[t], F_pts)

Exported(y) ==
    {i \in 1..Len(output.rows) : output.rows[i][F_year] = StrValue(Text(y))}

\* C5: the exported rows of a season are one row for each distinct team code
\* of the totals table: no (season, code) pair twice, a team of the advanced
\* table alone logged and left out, and thirty rows for thirty teams.
C5_TeamOutputSet ==
    pc = "done" =>
        \A n \in 1..Len(years) :
            /\ {output.rows[i][F_team_id] : i \in Exported(years[n])}
                    = {StrValue(Text(c)) : c \in TotalsCodes(years[n])}
            /\ Cardinality(Exported(years[n])) = Cardinality(TotalsCodes(years[n]))
            /\ \A c \in AdvancedCodes(years[n]) \ TotalsCodes(years[n]) :
                    NotInTotals(c, years[n]) \in logs
            /\ Cardinality(TotalsCodes(years[n])) = LEAGUE
                    => Cardinality(Exported(years[n])) = LEAGUE

\* thirty teams exported for one season, and an advanced-only team left out
\* of another
C5_Witness ==
    /\ pc = "done"
    /\ Cardinality(Exported(years[1])) = LEAGUE
    /\ \E n \in 1..Len(years) :
        \E c \in AdvancedCodes(years[n]) \ TotalsCodes(years[n]) :
            /\ NotInTotals(c, years[n]) \in logs
            /\ \A i \in Exported(years[n]) : output.rows[i][F_team_id] # StrValue(Text(c))

(***************************************************************************)
(* Claims about a whole run                                                *)
(***************************************************************************)
Processing == {"players", "raptor", "teams", "export", "done"}

WasOutOfDate(f) == fs0[f].age < 0 \/ fs0[f].age > HOUR

\* the download phase comes first, or not at all
DownloadFirst ==
    /\ args.no_download => fs = fs0
    /\ (pc \in Processing /\ ~ args.no_download) =>
        \A n \in 1..Len(years) :
            (args.force_download \/ WasOutOfDate(YearFile(years[n], "totals")))
                => fs[YearFile(years[n], "totals")] = [age |-> 0, text |-> "page"]

PlayerIds(y) ==
    UNION {{<< site_players[y][page][i][1].attrs["data-append-csv"],
               site_players[y][page][i][2].children.txt, y >> :
                i \in 1..Len(site_players[y][page])} : page \in DOMAIN site_players[y]}

\* each phase starts when the one before it has finished
PhasesInOrder ==
    /\ pc \in {"main", "download", "fetch", "save", "save_loop", "process", "players"}
        => rpos = [file |-> 1, row |-> 0]
    /\ pc \in {"raptor", "teams", "export", "done"}
        => \A n \in 1..Len(years) : PlayerIds(years[n]) \subseteq DOMAIN player_data
    /\ pc \in {"main", "download", "fetch", "save", "save_loop", "process", "players", "raptor"}
        => team_list_of_dicts = << >>
    /\ pc \in {"teams", "export", "done"} => rpos.file > Len(raptor_files)
    /\ pc \in {"export", "done"}
        => \A n \in 1..Len(years) :
            \A c \in TotalsCodes(years[n]) : TeamRecords(c, years[n]) # {}
    /\ pc # "done" => ~ output.written

PlayerPagesPresent ==
    \A n \in 1..Len(years), p \in 1..Len(player_pages) :
        fs[YearFile(years[n], player_pages[p])].age >= 0

RatingRowsKnown ==
    \A f \in 1..Len(raptor_files) :
        \A r \in 1..Len(site_raptor[raptor_files[f]]) :
            Expected(RatingRow(f, r)) => Resolved(RatingRow(f, r)) \in DOMAIN player_data

\* the rows of the CSV are team rows, none for a year without a team page
TeamRowsOnly ==
    /\ \A i \in 1..Len(output.rows) :
        DOMAIN output.rows[i] \cap {F_bb_ref_id, F_player, F_raptor_total, F_mp} = {}
    /\ \A n \in 1..Len(years) : ~ HasTeamPage(years[n]) => Exported(years[n]) = {}

\* a run that stops for a missing file stops for a player page or a rating file
TeamPageNotFatal ==
    (pc = "failed" /\ error.type = "FileNotFoundError")
        => \/ ~ PlayerPagesPresent
           \/ \E f \in 1..Len(raptor_files) : fs[RaptorFile(raptor_files[f])].age < 0

\* C9: the phases run in the order download, player parse, rating merge, team
\* parse, export; the CSV is written once, after every phase before it ended
\* without a fatal error, so not when a player page of a requested year is
\* missing nor when a rating row has an identity no page has; its rows are
\* team rows; a missing team page stops nothing and adds no row.
C9_ExportGated ==
    /\ DownloadFirst
    /\ PhasesInOrder
    /\ TeamPageNotFatal
    /\ output.written =>
        /\ error = NoError
        /\ ~ ENABLED Export
        /\ PlayerPagesPresent
        /\ RatingRowsKnown
        /\ TeamRowsOnly

====
